---- MODULE Spec2Model ----
(* Model of src/models/answer.js: the Answer data-access object over a     *)
(* Neo4j graph store.  The store is the external collaborator; each Cypher *)
(* query of the source is one atomic store step followed by the callback   *)
(* the source passes to db.cypher.                                         *)
EXTENDS Integers, Sequences, FiniteSets, Bags, TLC

\* ---------------------------------------------------------------- bounds
\* most Answer nodes the store holds at once
MaxNodes == 2
\* most queries in flight at once
MaxCalls == 2
\* most repository calls issued in one run
MaxOps == 4

\* ---------------------------------------------------------------- values
\* A JS value of a property: absent (undefined) or a string, the string a
\* sequence of one-character strings.
Undefined == [t |-> "undefined", s |-> <<>>]
Str(s) == [t |-> "string", s |-> s]

AB == Str(<<"a", "b">>)
CD == Str(<<"c", "d">>)

\* JS falsiness of a property value: `!val`
Falsy(val) == val.t = "undefined" \/ val.s = <<>>

\* Answer.VALIDATION_INFO.answername
minLength == 2
maxLength == 16
infoRequired == TRUE
WordChars ==
    {"a","b","c","d","e","f","g","h","i","j","k","l","m","n","o","p","q","r",
     "s","t","u","v","w","x","y","z","A","B","C","D","E","F","G","H","I","J",
     "K","L","M","N","O","P","Q","R","S","T","U","V","W","X","Y","Z","0","1",
     "2","3","4","5","6","7","8","9","_"}
\* /^[A-Za-z0-9_]+$/.test(val)
patternTest(s) == Len(s) >= 1 /\ \A i \in 1..Len(s) : s[i] \in WordChars

\* ---------------------------------------------------------------- errors
NoErr == [kind |-> "none", why |-> "", name |-> Undefined]
ValidationError(why, name) == [kind |-> "ValidationError", why |-> why, name |-> name]
PlainError(why, name) == [kind |-> "Error", why |-> why, name |-> name]
\* an error of the store or the transport that is no constraint violation
StoreError == [kind |-> "StoreError", why |-> "store", name |-> Undefined]
ConstraintViolation == [kind |-> "ClientError", why |-> "ConstraintViolation", name |-> Undefined]

isConstraintViolation(err) == err.kind = "ClientError" /\ err.why = "ConstraintViolation"

\* ---------------------------------------------------------------- validation
\* validateProp with `<=` for `<` in the minimum-length test
validatePropShortOffByOne(val, required) ==
    IF Falsy(val)
    THEN IF infoRequired /\ required THEN "Missing" ELSE "ok"
    ELSE IF Len(val.s) <= minLength THEN "TooShort"
    ELSE IF Len(val.s) > maxLength THEN "TooLong"
    ELSE IF ~patternTest(val.s) THEN "Format"
    ELSE "ok"

\* validateProp: "ok", or the reason of the ValidationError it throws
validateProp(val, required) ==
    IF Falsy(val)
    THEN IF infoRequired /\ required THEN "Missing" ELSE "ok"
    ELSE IF Len(val.s) < minLength THEN "TooShort"
    ELSE IF Len(val.s) > maxLength THEN "TooLong"
    ELSE IF ~patternTest(val.s) THEN "Format"
    ELSE "ok"

\* validate: the thrown error (NoErr when none) and the safe subset of props
validate(props, required) ==
    LET r == validateProp(props.answername, required)
    IN [err |-> IF r = "ok" THEN NoErr ELSE ValidationError(r, props.answername),
        safeProps |-> [answername |-> props.answername]]

\* ---------------------------------------------------------------- state
VARIABLES
    nodes,       \* the store's Answer nodes: node id -> its answername property
    rels,        \* the store's follows relationships: a bag of <<from id, to id>>
    constraint,  \* the startup db.createConstraint call: "pending", "registered", "crashed"
    answers,     \* the answername held by each Answer instance alive in memory
    pending,     \* the db.cypher queries in flight: a bag of calls
    issued,      \* number of repository calls made so far
    last,        \* how the most recently finished repository call ended
    cand,        \* validation harness: the candidate property value
    req,         \* validation harness: the `required` flag
    verdict      \* validation harness: what validate did with cand

vars == <<nodes, rels, constraint, answers, pending, issued, last, cand, req, verdict>>
harnessVars == <<cand, req, verdict>>

Ids == 1..MaxNodes

\* ---------------------------------------------------------------- the store
\* a node as a result row carries it
NodeOf(ns, i) == [id |-> i, answername |-> ns[i]]

RECURSIVE SortedSeq(_)
\* the ids of S in the store's result order
SortedSeq(S) ==
    IF S = {} THEN <<>>
    ELSE LET m == CHOOSE x \in S : \A y \in S : x <= y
         IN <<m>> \o SortedSeq(S \ {m})

\* MATCH (answer:Answer {answername: name})
Match(ns, name) == {i \in DOMAIN ns : ns[i] = name}

\* two nodes carry the same answername value
Duplicates(ns) ==
    \E i, j \in DOMAIN ns : i # j /\ ns[i] = ns[j] /\ ns[i].t = "string"

\* the relationships of rs that touch none of the nodes of M
RelsAvoiding(rs, M) ==
    LET keep == {e \in DOMAIN rs : e[1] \notin M /\ e[2] \notin M}
    IN [e \in keep |-> rs[e]]

\* the relationships of rs outside the set P of pairs
RelsWithout(rs, P) == [e \in (DOMAIN rs) \ P |-> rs[e]]

\* the nodes of S as result rows
Rows(ns, S) == [k \in 1..Cardinality(S) |-> [node |-> NodeOf(ns, SortedSeq(S)[k]), count |-> 0]]

\* what the store answers to one query: its new graph, an error or the rows
Result(ns, rs, err, rows) == [nodes |-> ns, rels |-> rs, err |-> err, rows |-> rows]

\* CREATE (answer:Answer {props}) RETURN answer
CreateQ(ns, rs, unique, props) ==
    IF unique /\ props.answername.t = "string" /\ Match(ns, props.answername) # {}
    THEN Result(ns, rs, ConstraintViolation, <<>>)
    ELSE LET id == CHOOSE i \in Ids \ DOMAIN ns : \A j \in Ids \ DOMAIN ns : i <= j
             ns2 == [i \in DOMAIN ns \cup {id} |->
                        IF i = id THEN props.answername ELSE ns[i]]
         IN Result(ns2, rs, NoErr, Rows(ns2, {id}))

\* MATCH (answer:Answer {answername}) SET answer += {props} RETURN answer
PatchQ(ns, rs, unique, key, props) ==
    LET M == Match(ns, key)
        ns2 == [i \in DOMAIN ns |->
                   IF i \in M /\ props.answername.t = "string"
                   THEN props.answername ELSE ns[i]]
    IN IF unique /\ Duplicates(ns2)
       THEN Result(ns, rs, ConstraintViolation, <<>>)
       ELSE Result(ns2, rs, NoErr, Rows(ns2, M))

\* del with a directed pattern, (answer) -[rel:follows]-> (other): the
\* relationships pointing at the deleted nodes stay
DelQOutgoingOnly(ns, rs, key) ==
    LET M == Match(ns, key)
        keep == {e \in DOMAIN rs : e[1] \notin M}
    IN Result([i \in (DOMAIN ns) \ M |-> ns[i]], [e \in keep |-> rs[e]], NoErr, <<>>)

\* MATCH (answer) OPTIONAL MATCH (answer) -[rel:follows]- (other) DELETE answer, rel
DelQ(ns, rs, key) ==
    LET M == Match(ns, key)
    IN Result([i \in (DOMAIN ns) \ M |-> ns[i]], RelsAvoiding(rs, M), NoErr, <<>>)

\* follow with CREATE for MERGE
FollowQCreate(ns, rs, key, other) ==
    Result(ns, rs (+) SetToBag(Match(ns, key) \X Match(ns, other)), NoErr, <<>>)

\* MATCH (answer) MATCH (other) MERGE (answer) -[rel:follows]-> (other)
FollowQ(ns, rs, key, other) ==
    LET P == Match(ns, key) \X Match(ns, other)
        new == {e \in P : CopiesIn(e, rs) = 0}
    IN Result(ns, rs (+) SetToBag(new), NoErr, <<>>)

\* unfollow that does not bind the far end of the relationship to `other`
UnfollowQAnyOther(ns, rs, key, other) ==
    Result(ns, RelsWithout(rs, Match(ns, key) \X DOMAIN ns), NoErr, <<>>)

\* MATCH (answer) MATCH (other) MATCH (answer) -[rel:follows]-> (other) DELETE rel
UnfollowQ(ns, rs, key, other) ==
    Result(ns, RelsWithout(rs, Match(ns, key) \X Match(ns, other)), NoErr, <<>>)

RECURSIVE SumCopies(_, _, _)
\* COUNT(rel) over the matched subjects A for one `other` node o
SumCopies(rs, A, o) ==
    IF A = {} THEN 0
    ELSE LET a == CHOOSE x \in A : TRUE
         IN CopiesIn(<<a, o>>, rs) + SumCopies(rs, A \ {a}, o)

\* MATCH (answer) MATCH (other:Answer) OPTIONAL MATCH (answer) -[rel:follows]-> (other)
\* RETURN other, COUNT(rel)
FollowingQ(ns, rs, key) ==
    LET A == Match(ns, key)
        O == IF A = {} THEN {} ELSE DOMAIN ns
        ord == SortedSeq(O)
    IN Result(ns, rs, NoErr,
             [k \in 1..Cardinality(O) |->
                 [node |-> NodeOf(ns, ord[k]), count |-> SumCopies(rs, A, ord[k])]])

\* MATCH (answer:Answer {answername}) RETURN answer
GetQ(ns, rs, key) == Result(ns, rs, NoErr, Rows(ns, Match(ns, key)))

\* MATCH (answer:Answer) RETURN answer
GetAllQ(ns, rs) == Result(ns, rs, NoErr, Rows(ns, DOMAIN ns))

\* ---------------------------------------------------------------- inputs
\* the property values callers pass as props.answername to create and patch:
\* absent, too short, and two valid names
PropInputs == {Undefined, Str(<<"a">>), AB, CD}
\* the keys callers pass to Answer.get
KeyInputs == {AB, CD}

Call(op, key, other, props) == [op |-> op, key |-> key, other |-> other, props |-> props]

\* how a finished call ended: thrown synchronously, or its callback's arguments
\* (err; res/others when `given`) and, for patch, the instance's _node afterwards
Ended(op, thrown, cbs, err, given, res, others, self) ==
    [op |-> op, thrown |-> thrown, cbs |-> cbs, err |-> err, given |-> given,
     res |-> res, others |-> others, self |-> self]

NotStarted == Ended("none", FALSE, 0, NoErr, FALSE, <<>>, <<>>, Undefined)
Threw(op, err) == Ended(op, TRUE, 0, err, FALSE, <<>>, <<>>, Undefined)
\* callback(err)
CbErr(op, err, self) == Ended(op, FALSE, 1, err, FALSE, <<>>, <<>>, self)
\* callback(null)
CbVoid(op, self) == Ended(op, FALSE, 1, NoErr, FALSE, <<>>, <<>>, self)
\* callback(null, res) and callback(null, res, others)
CbRes(op, res, others, self) == Ended(op, FALSE, 1, NoErr, TRUE, res, others, self)

\* validation harness: nothing validated yet
NoVerdict == [done |-> FALSE, err |-> NoErr, safeProps |-> [answername |-> Undefined]]

NamesOf(seq) == {seq[k].answername : k \in 1..Len(seq)}

Init ==
    /\ nodes = <<>>
    /\ rels = EmptyBag
    /\ constraint = "pending"
    /\ answers = {}
    /\ pending = EmptyBag
    /\ issued = 0
    /\ last = NotStarted
    /\ cand = Undefined
    /\ req = FALSE
    /\ verdict = NoVerdict

Unique == constraint = "registered"

\* a caller may make one more call
CanCall ==
    /\ constraint # "crashed"
    /\ issued < MaxOps
    /\ BagCardinality(pending) < MaxCalls

\* db.cypher(...): the query leaves for the store
Send(c) ==
    /\ pending' = pending (+) SetToBag({c})
    /\ issued' = issued + 1
    /\ UNCHANGED <<nodes, rels, constraint, answers, last, harnessVars>>

\* the call ends by an exception before any query is sent
Throw(op, err) ==
    /\ last' = Threw(op, err)
    /\ issued' = issued + 1
    /\ UNCHANGED <<nodes, rels, constraint, answers, pending, harnessVars>>

\* ---------------------------------------------------------------- calls
\* Answer.get = function (answername, callback)
get(key) ==
    /\ CanCall
    /\ Send(Call("get", key, Undefined, [answername |-> Undefined]))

\* Answer.getAll = function (callback)
getAll ==
    /\ CanCall
    /\ Send(Call("getAll", Undefined, Undefined, [answername |-> Undefined]))

\* the CREATE queries in flight
CreatesInFlight ==
    LET cs == {c \in BagToSet(pending) : c.op = "create"}
    IN BagCardinality([c \in cs |-> pending[c]])

\* Answer.create = function (props, callback); `validate(props)` leaves
\* `required` undefined
create(props) ==
    /\ CanCall
    /\ LET v == validate(props, FALSE)
       IN IF v.err # NoErr
          THEN Throw("create", v.err)
          ELSE /\ Cardinality(DOMAIN nodes) + CreatesInFlight < MaxNodes
               /\ Send(Call("create", Undefined, Undefined, v.safeProps))

\* Answer.prototype.patch = function (props, callback)
patch(self, props) ==
    /\ CanCall
    /\ self \in answers
    /\ LET v == validate(props, FALSE)
       IN IF v.err # NoErr
          THEN Throw("patch", v.err)
          ELSE Send(Call("patch", self, Undefined, v.safeProps))

\* Answer.prototype.del = function (callback)
del(self) ==
    /\ CanCall
    /\ self \in answers
    /\ Send(Call("del", self, Undefined, [answername |-> Undefined]))

\* Answer.prototype.follow = function (other, callback)
follow(self, other) ==
    /\ CanCall
    /\ self \in answers /\ other \in answers
    /\ Send(Call("follow", self, other, [answername |-> Undefined]))

\* Answer.prototype.unfollow = function (other, callback)
unfollow(self, other) ==
    /\ CanCall
    /\ self \in answers /\ other \in answers
    /\ Send(Call("unfollow", self, other, [answername |-> Undefined]))

\* Answer.prototype.getFollowingAndOthers = function (callback)
getFollowingAndOthers(self) ==
    /\ CanCall
    /\ self \in answers
    /\ Send(Call("getFollowingAndOthers", self, Undefined, [answername |-> Undefined]))

\* ---------------------------------------------------------------- callbacks
\* the rows' nodes, each wrapped as new Answer(node)
AnswersOf(rows) == [k \in 1..Len(rows) |-> rows[k].node]

RECURSIVE Partition(_, _, _, _, _)
\* the loop of getFollowingAndOthers' callback from row i on
Partition(rows, i, subject, following, others) ==
    IF i > Len(rows) THEN [following |-> following, others |-> others]
    ELSE IF subject = rows[i].node.answername
         THEN Partition(rows, i + 1, subject, following, others)
    ELSE IF rows[i].count # 0
         THEN Partition(rows, i + 1, subject, Append(following, rows[i].node), others)
    ELSE Partition(rows, i + 1, subject, following, Append(others, rows[i].node))

\* the constraint violation rewritten as in create's and patch's callbacks
Remapped(err, props) ==
    IF isConstraintViolation(err) THEN ValidationError("Taken", props.answername) ELSE err

getCallback(c, r) ==
    IF r.err # NoErr THEN CbErr("get", r.err, Undefined)
    ELSE IF Len(r.rows) = 0 THEN CbErr("get", PlainError("NoSuch", c.key), Undefined)
    ELSE CbRes("get", <<r.rows[1].node>>, <<>>, Undefined)

getAllCallback(c, r) ==
    IF r.err # NoErr THEN CbErr("getAll", r.err, Undefined)
    ELSE CbRes("getAll", AnswersOf(r.rows), <<>>, Undefined)

createCallback(c, r) ==
    LET err == Remapped(r.err, c.props)
    IN IF err # NoErr THEN CbErr("create", err, Undefined)
       ELSE CbRes("create", <<r.rows[1].node>>, <<>>, Undefined)

\* patch's callback without the `if (!results.length)` test
patchCallbackNoRowCheck(c, r) ==
    LET err == Remapped(r.err, c.props)
    IN IF err # NoErr THEN CbErr("patch", err, c.key)
       ELSE CbVoid("patch", IF Len(r.rows) = 0 THEN c.key ELSE r.rows[1].node.answername)

patchCallback(c, r) ==
    LET err == Remapped(r.err, c.props)
    IN IF err # NoErr THEN CbErr("patch", err, c.key)
       ELSE IF Len(r.rows) = 0 THEN CbErr("patch", PlainError("Deleted", c.key), c.key)
       ELSE CbVoid("patch", r.rows[1].node.answername)

\* del, follow and unfollow: function (err) { callback(err); }
plainCallback(c, r) ==
    IF r.err # NoErr THEN CbErr(c.op, r.err, c.key) ELSE CbVoid(c.op, c.key)

getFollowingAndOthersCallback(c, r) ==
    IF r.err # NoErr THEN CbErr("getFollowingAndOthers", r.err, c.key)
    ELSE LET p == Partition(r.rows, 1, c.key, <<>>, <<>>)
         IN CbRes("getFollowingAndOthers", p.following, p.others, c.key)

\* ---------------------------------------------------------------- replies
\* the store's answer to call c on the graph as it is now
Query(c) ==
    CASE c.op = "get" -> GetQ(nodes, rels, c.key)
      [] c.op = "getAll" -> GetAllQ(nodes, rels)
      [] c.op = "create" -> CreateQ(nodes, rels, Unique, c.props)
      [] c.op = "patch" -> PatchQ(nodes, rels, Unique, c.key, c.props)
      [] c.op = "del" -> DelQ(nodes, rels, c.key)
      [] c.op = "follow" -> FollowQ(nodes, rels, c.key, c.other)
      [] c.op = "unfollow" -> UnfollowQ(nodes, rels, c.key, c.other)
      [] c.op = "getFollowingAndOthers" -> FollowingQ(nodes, rels, c.key)

Callback(c, r) ==
    CASE c.op = "get" -> getCallback(c, r)
      [] c.op = "getAll" -> getAllCallback(c, r)
      [] c.op = "create" -> createCallback(c, r)
      [] c.op = "patch" -> patchCallback(c, r)
      [] c.op \in {"del", "follow", "unfollow"} -> plainCallback(c, r)
      [] c.op = "getFollowingAndOthers" -> getFollowingAndOthersCallback(c, r)

\* every query parameter the call names has a value (an undefined one is
\* dropped from the request, and the store rejects the query)
ParamsGiven(c) ==
    /\ c.op \in {"get", "patch", "del", "follow", "unfollow", "getFollowingAndOthers"}
          => c.key.t = "string"
    /\ c.op \in {"follow", "unfollow"} => c.other.t = "string"

\* the Answer instances the callback leaves in memory; an instance is kept as
\* the answername of its _node, the one property the methods read, and an
\* older instance of the same node may stay alive beside a patched one
Held(e) ==
    IF e.err # NoErr THEN {}
    ELSE IF e.given THEN NamesOf(e.res) \cup NamesOf(e.others)
    ELSE IF e.op = "patch" THEN {e.self}
    ELSE {}

\* the store has answered call c with r, and c's callback runs; the query's
\* effect on the graph and the callback are taken as one step
Deliver(c, r) ==
    /\ constraint # "crashed"
    /\ nodes' = r.nodes
    /\ rels' = r.rels
    /\ last' = Callback(c, r)
    /\ answers' = answers \cup Held(Callback(c, r))
    /\ pending' = pending (-) SetToBag({c})
    /\ UNCHANGED <<constraint, issued, harnessVars>>

\* the store runs the query of call c
Answered(c, op) ==
    /\ c.op = op
    /\ ParamsGiven(c)
    /\ Deliver(c, Query(c))

getReply == \E c \in BagToSet(pending) : Answered(c, "get")
getAllReply == \E c \in BagToSet(pending) : Answered(c, "getAll")
createReply == \E c \in BagToSet(pending) : Answered(c, "create")
patchReply == \E c \in BagToSet(pending) : Answered(c, "patch")
delReply == \E c \in BagToSet(pending) : Answered(c, "del")
followReply == \E c \in BagToSet(pending) : Answered(c, "follow")
unfollowReply == \E c \in BagToSet(pending) : Answered(c, "unfollow")
getFollowingAndOthersReply ==
    \E c \in BagToSet(pending) : Answered(c, "getFollowingAndOthers")

\* the query of a call fails at the store or on the way, the graph untouched
storeFails ==
    \E c \in BagToSet(pending) : Deliver(c, Result(nodes, rels, StoreError, <<>>))

\* the callback of db.createConstraint: the store refuses the constraint when
\* the data already violates it, and `if (err) throw err` ends the process
createConstraintReply ==
    /\ constraint = "pending"
    /\ \E ok \in BOOLEAN :
          constraint' = IF ok /\ ~Duplicates(nodes) THEN "registered" ELSE "crashed"
    /\ UNCHANGED <<nodes, rels, answers, pending, issued, last, harnessVars>>

Next ==
    \/ \E key \in KeyInputs : get(key)
    \/ getAll
    \/ \E v \in PropInputs : create([answername |-> v])
    \/ \E self \in answers, v \in PropInputs : patch(self, [answername |-> v])
    \/ \E self \in answers : del(self)
    \/ \E self, other \in answers : follow(self, other)
    \/ \E self, other \in answers : unfollow(self, other)
    \/ \E self \in answers : getFollowingAndOthers(self)
    \/ getReply
    \/ getAllReply
    \/ createReply
    \/ patchReply
    \/ delReply
    \/ followReply
    \/ unfollowReply
    \/ getFollowingAndOthersReply
    \/ storeFails
    \/ createConstraintReply

Spec == Init /\ [][Next]_vars

\* ---------------------------------------------------------------- validation harness
\* validate as a pure function, applied to candidate values of answername
\* longest candidate built from every combination of characters
ShortLen == 2
\* longest candidate
LongLen == 17
Alphabet == {"a", "Z", "7", "_", " ", "-"}
Fill(n, ch) == [i \in 1..n |-> ch]
ShortStrings == UNION {[1..n -> Alphabet] : n \in 0..ShortLen}
LongStrings ==
    {Fill(n, ch) : n \in (ShortLen + 1)..LongLen, ch \in Alphabet}
    \cup {[Fill(n, "a") EXCEPT ![p] = ch] :
             n \in (ShortLen + 1)..LongLen, p \in {1, ShortLen + 1}, ch \in Alphabet}
Candidates == {Undefined} \cup {Str(s) : s \in ShortStrings \cup LongStrings}

InitV ==
    /\ nodes = <<>>
    /\ rels = EmptyBag
    /\ constraint = "pending"
    /\ answers = {}
    /\ pending = EmptyBag
    /\ issued = 0
    /\ last = NotStarted
    /\ cand \in Candidates
    /\ req \in BOOLEAN
    /\ verdict = NoVerdict

\* validate(props, required) returns the safe subset or throws
validateCall ==
    /\ ~verdict.done
    /\ LET v == validate([answername |-> cand], req)
       IN verdict' = [done |-> TRUE, err |-> v.err, safeProps |-> v.safeProps]
    /\ UNCHANGED <<nodes, rels, constraint, answers, pending, issued, last, cand, req>>

NextV == validateCall

SpecV == InitV /\ [][NextV]_vars

\* ---------------------------------------------------------------- properties
NoProps == [answername |-> Undefined]

\* the step answers call c: c leaves the queries in flight and its callback runs
ReplyStep(c) ==
    /\ c \in BagToSet(pending)
    /\ pending' = pending (-) SetToBag({c})
    /\ last'.op = c.op

\* the answernames the store holds
StoredNames == {nodes[i] : i \in {j \in DOMAIN nodes : nodes[j].t = "string"}}

\* what getFollowingAndOthers called on subject s hands its callback now
FollowingNow(s) ==
    getFollowingAndOthersCallback(Call("getFollowingAndOthers", s, Undefined, NoProps),
                                  FollowingQ(nodes, rels, s))

\* what Answer.get(key) hands its callback now
GetNow(key) == getCallback(Call("get", key, Undefined, NoProps), GetQ(nodes, rels, key))

IdsOf(seq) == {seq[k].id : k \in 1..Len(seq)}

\* C1: a create whose answername is absent or empty fails with the 'missing
\* field' ValidationError, sends no query, and persists no node.
C1_CreateRequiresAnswername ==
    /\ \A c \in BagToSet(pending) : c.op = "create" => ~Falsy(c.props.answername)
    /\ \A i \in DOMAIN nodes : ~Falsy(nodes[i])

\* C2: in every reachable state, the constraint registration still pending
\* included, no two Answer nodes have the same answername.
C2_UniqueAnswernames == ~Duplicates(nodes)

\* C3: every repository call that has ended has invoked its callback exactly
\* once, with an error or a result and never both.
C3_CallbackExactlyOnce ==
    last.op # "none" =>
        /\ last.cbs = 1
        /\ ~(last.err # NoErr /\ last.given)

\* C4: every follows relationship has both endpoints present as nodes; and
\* right after a del(A) that the store ran, no node named A is left, get(A)
\* fails with 'no such answer' and getFollowingAndOthers(B) lists A in
\* neither sequence, for every B.
C4_DelCascades ==
    /\ \A e \in DOMAIN rels : e[1] \in DOMAIN nodes /\ e[2] \in DOMAIN nodes
    /\ (last.op = "del" /\ last.err = NoErr) =>
          /\ Match(nodes, last.self) = {}
          /\ GetNow(last.self).err = PlainError("NoSuch", last.self)
          /\ \A b \in StoredNames :
                last.self \notin NamesOf(FollowingNow(b).res)
                                 \cup NamesOf(FollowingNow(b).others)

\* C4 witness: a del of AB has just been answered while CD is stored and
\* holds an Answer instance of the deleted AB in memory.
C4_Witness ==
    /\ last.op = "del" /\ last.err = NoErr /\ last.self = AB
    /\ CD \in StoredNames
    /\ AB \in answers

\* C5: there is at most one follows relationship per ordered pair of nodes,
\* and running follow(a, b) a second time on the graph a first run leaves
\* changes nothing.
C5_FollowIdempotent ==
    /\ \A e \in DOMAIN rels : rels[e] = 1
    /\ \A a, b \in answers \cup KeyInputs :
          LET once == FollowQ(nodes, rels, a, b)
              twice == FollowQ(once.nodes, once.rels, a, b)
          IN /\ twice.nodes = once.nodes
             /\ twice.rels = once.rels
             /\ \A e \in Match(nodes, a) \X Match(nodes, b) : CopiesIn(e, once.rels) = 1

\* C5 witness: follow(AB, CD) has been answered and left its relationship,
\* and a concurrent duplicate follow(AB, CD) is still in flight.
C5_Witness ==
    /\ last.op = "follow" /\ last.err = NoErr /\ last.self = AB
    /\ BagIn(Call("follow", AB, CD, NoProps), pending)
    /\ \E e \in Match(nodes, AB) \X Match(nodes, CD) : CopiesIn(e, rels) = 1

\* C6: for every stored subject node S, getFollowingAndOthers(S) returns two
\* disjoint sequences without repeats whose union is every node other than S,
\* `following` exactly the nodes S has a follows relationship to.
C6_PartitionExact ==
    \A i \in DOMAIN nodes :
        nodes[i].t = "string" =>
            LET r == FollowingNow(nodes[i])
                F == IdsOf(r.res)
                O == IdsOf(r.others)
                followed == {x \in (DOMAIN nodes) \ {i} : CopiesIn(<<i, x>>, rels) > 0}
            IN /\ r.err = NoErr
               /\ Len(r.res) = Cardinality(F) /\ Len(r.others) = Cardinality(O)
               /\ F \cap O = {}
               /\ F = followed
               /\ O = ((DOMAIN nodes) \ {i}) \ followed

\* the identity-key rule as the specification words it
KeyRule(s) == Len(s) >= 2 /\ Len(s) <= 16 /\ \A i \in 1..Len(s) : s[i] \in WordChars

\* C7 as claimed: validate accepts a candidate string if and only if its
\* length is in [2,16] and it matches the pattern, with `required` set or not.
C7_AcceptIffKeyRule ==
    (verdict.done /\ cand.t = "string") =>
        /\ (verdict.err = NoErr) <=> KeyRule(cand.s)
        /\ verdict.err # NoErr => verdict.err.kind = "ValidationError"

\* C7 amended: for every non-empty candidate string validate accepts if and
\* only if the length is in [2,16] and the pattern matches, whatever `required`
\* is, and rejects with a ValidationError naming too short, too long or format;
\* the empty string counts as an absent value: rejected as missing when
\* `required` is set and accepted unchecked when it is not.
C7_AcceptIffKeyRuleNonEmpty ==
    (verdict.done /\ cand.t = "string") =>
        IF cand.s # <<>>
        THEN /\ (verdict.err = NoErr) <=> KeyRule(cand.s)
             /\ verdict.err # NoErr =>
                   /\ verdict.err.kind = "ValidationError"
                   /\ verdict.err.why =
                         IF Len(cand.s) < 2 THEN "TooShort"
                         ELSE IF Len(cand.s) > 16 THEN "TooLong"
                         ELSE "Format"
        ELSE /\ (verdict.err = NoErr) <=> ~req
             /\ req => verdict.err = ValidationError("Missing", cand)

\* C7 witness: the empty string has been validated with `required` unset and
\* was accepted.
C7_Witness ==
    verdict.done /\ cand = Str(<<>>) /\ ~req /\ verdict.err = NoErr

\* C8: when the store runs a patch whose MATCH finds no node, the callback
\* gets the 'deleted' error and the graph and the instance's node stay as they
\* were; when the callback reports success a node was matched and the
\* instance's node is that node as the store holds it after the update.
C8_PatchOnMissingNode ==
    [][\A c \in BagToSet(pending) :
          (c.op = "patch" /\ ReplyStep(c)) =>
              /\ (Match(nodes, c.key) = {} /\ last'.err # StoreError) =>
                    /\ last'.err = PlainError("Deleted", c.key)
                    /\ nodes' = nodes /\ rels' = rels
                    /\ last'.self = c.key
                    /\ answers' = answers
              /\ last'.err = NoErr =>
                    /\ Match(nodes, c.key) # {}
                    /\ \E i \in Match(nodes, c.key) : last'.self = nodes'[i]]_vars

\* C8 witness: a patch has ended with the 'deleted' error.
C8_Witness ==
    /\ last.op = "patch" /\ last.err = PlainError("Deleted", last.self)
    /\ Match(nodes, last.self) = {}

\* C9: two patch calls in flight for the same stored answername, each of which
\* the store would accept alone, both end in success when the store runs one
\* after the other, and the store then holds the later write.
C9_ConcurrentPatchesBothSucceed ==
    \A c1, c2 \in BagToSet(pending) :
        LET r1 == PatchQ(nodes, rels, Unique, c1.key, c1.props)
            r2 == PatchQ(r1.nodes, r1.rels, Unique, c2.key, c2.props)
            alone == PatchQ(nodes, rels, Unique, c2.key, c2.props)
        IN (/\ c1.op = "patch" /\ c2.op = "patch"
            /\ c1 # c2 \/ CopiesIn(c1, pending) >= 2
            /\ c1.key = c2.key /\ c1.key.t = "string"
            /\ Match(nodes, c1.key) # {}
            /\ patchCallback(c1, r1).err = NoErr
            /\ patchCallback(c2, alone).err = NoErr)
           => /\ patchCallback(c2, r2).err = NoErr
              /\ c2.props.answername.t = "string" =>
                    \E i \in DOMAIN r2.nodes : r2.nodes[i] = c2.props.answername

\* the MATCH of call c finds nothing to act on
MatchesNothing(c) ==
    CASE c.op = "del" -> Match(nodes, c.key) = {}
      [] c.op = "follow" -> Match(nodes, c.key) = {} \/ Match(nodes, c.other) = {}
      [] c.op = "unfollow" ->
            \A e \in Match(nodes, c.key) \X Match(nodes, c.other) : CopiesIn(e, rels) = 0

\* C10: a follow or unfollow with a missing endpoint, an unfollow of a
\* relationship that is not there and a del of a node that is gone, once the
\* store has run them, call back without an error and leave nodes and
\* relationships as they were.
C10_UnmatchedIsNoOp ==
    [][\A c \in BagToSet(pending) :
          (/\ c.op \in {"del", "follow", "unfollow"}
           /\ ReplyStep(c)
           /\ MatchesNothing(c)
           /\ last'.err # StoreError)
          => (last'.err = NoErr /\ nodes' = nodes /\ rels' = rels)]_vars

\* C10 witness: a follow from AB has been answered without an error while no
\* node named AB is stored any more.
C10_Witness ==
    /\ last.op = "follow" /\ last.err = NoErr /\ last.self = AB
    /\ Match(nodes, AB) = {}
    /\ DOMAIN nodes # {}

====
